---- MODULE Spec2Model ----
(***************************************************************************)
(* Network device detection and reconciliation of pkg/datapath/linux       *)
(* (devices.go): DeviceManager.Detect, DeviceManager.Listen and the        *)
(* helpers they call, as a state machine.                                  *)
(*                                                                         *)
(* A Go string is modelled as a sequence of one-character strings, so that *)
(* prefix, suffix, trimming and byte-wise ordering are computed.           *)
(* A Go map[string]struct{} is modelled as a set of strings.               *)
(***************************************************************************)
EXTENDS Integers, Sequences, FiniteSets, TLC

VARIABLES
    devices,     \* dm.devices: the DeviceSet
    filter,      \* dm.filter: the patterns given at construction
    mu,          \* dm.Mutex: "free" or the name of the holder
    cfg,         \* option.Config: the fields Detect reads and rewrites
    viper,       \* viper.GetStringSlice(option.Devices): the user's patterns
    host,        \* kernel, file system and node state read through netlink
    det,         \* the frame of the running Detect call
    lpc,         \* position of Listen and of the task it starts
    loc,         \* locals of Listen and of its task
    chan,        \* devicesChan: the buffered output channel
    tickReady,   \* ticker.C holds a tick
    tickerOn,    \* the ticker is running
    cancelled,   \* ctx.Done() is closed
    latest,      \* history: the last list the reconciliation went to emit
    past         \* history: tick, the effective filter of the last tick if its
                 \* link listing worked and the host has not changed since, and
                 \* whether Detect has run since; detect, the last list that
                 \* Detect returned

vars == <<devices, filter, mu, cfg, viper, host, det, lpc, loc, chan,
          tickReady, tickerOn, cancelled, latest, past>>

---------------------------------------------------------------------------
(* Strings *)

\* The characters used, in byte order (Go compares strings byte-wise).
Alphabet ==
    <<" ", "+", "0", "1", "2", "_", "a", "b", "c", "d", "e", "f", "h", "i",
      "k", "l", "m", "n", "o", "p", "r", "s", "t", "u", "v", "w", "x", "y">>

Ord(c) == CHOOSE i \in 1..Len(Alphabet) : Alphabet[i] = c

RECURSIVE StrLess(_, _)
StrLess(a, b) ==
    IF Len(a) = 0 THEN Len(b) > 0
    ELSE IF Len(b) = 0 THEN FALSE
    ELSE IF a[1] = b[1] THEN StrLess(Tail(a), Tail(b))
    ELSE Ord(a[1]) < Ord(b[1])

\* strings.HasPrefix
HasPrefix(s, p) == Len(p) <= Len(s) /\ SubSeq(s, 1, Len(p)) = p

\* strings.HasSuffix
HasSuffix(s, x) == Len(x) <= Len(s) /\ SubSeq(s, Len(s) - Len(x) + 1, Len(s)) = x

\* strings.TrimRight(s, c) for a one-character cutset: every trailing c goes.
RECURSIVE TrimRight(_, _)
TrimRight(s, c) ==
    IF Len(s) > 0 /\ s[Len(s)] = c THEN TrimRight(SubSeq(s, 1, Len(s) - 1), c)
    ELSE s

RECURSIVE TrimLeft(_, _)
TrimLeft(s, c) ==
    IF Len(s) > 0 /\ s[1] = c THEN TrimLeft(Tail(s), c) ELSE s

\* strings.TrimSpace (the space is the only white space in the alphabet)
TrimSpace(s) == TrimLeft(TrimRight(s, " "), " ")

\* strings.Contains
Contains(s, sub) ==
    \E i \in 0..(Len(s) - Len(sub)) : SubSeq(s, i + 1, i + Len(sub)) = sub

\* The elements of a sequence.
Range(seq) == {seq[i] : i \in 1..Len(seq)}

\* Ranging over a map: every member once, in an order the program cannot rely on.
RECURSIVE SetToSeq(_)
SetToSeq(S) ==
    IF S = {} THEN <<>>
    ELSE LET x == CHOOSE y \in S : TRUE
         IN <<x>> \o SetToSeq(S \ {x})

RECURSIVE InsertSorted(_, _)
InsertSorted(x, seq) ==
    IF Len(seq) = 0 THEN <<x>>
    ELSE IF StrLess(seq[1], x) THEN <<seq[1]>> \o InsertSorted(x, Tail(seq))
    ELSE <<x>> \o seq

\* sort.Strings
RECURSIVE SortStrings(_)
SortStrings(seq) ==
    IF Len(seq) = 0 THEN <<>>
    ELSE InsertSorted(seq[1], SortStrings(Tail(seq)))

\* A sort that orders the wrong way round.
SortStringsDescending(seq) ==
    LET s == SortStrings(seq)
    IN [i \in 1..Len(s) |-> s[Len(s) + 1 - i]]

\* DeviceManager.getDeviceList, without its sort.
getDeviceListUnsorted(devs) == SortStringsDescending(SetToSeq(devs))

\* DeviceManager.getDeviceList
getDeviceList(devs) == SortStrings(SetToSeq(devs))

\* A list is strictly ascending: sorted and free of duplicates.
StrictlyAscending(seq) == \A i \in 1..(Len(seq) - 1) : StrLess(seq[i], seq[i + 1])

---------------------------------------------------------------------------
(* The host as netlink, the file system and the node package report it *)

\* No value: a nil net.IP, a nil netlink.Link, a nil route destination.
Nil == [nil |-> TRUE]

excludedDevicePrefixes ==
    << <<"c", "i", "l", "i", "u", "m", "_">>,
       <<"l", "o">>,
       <<"l", "x", "c">>,
       <<"c", "n", "i">>,
       <<"d", "o", "c", "k", "e", "r">> >>

\* defaults.HostDevice
HostDevice == <<"c", "i", "l", "i", "u", "m", "_", "h", "o", "s", "t">>

\* The program names tcFiltersLost recognizes.
RecognizedPrograms ==
    { <<"b", "p", "f", "_", "n", "e", "t", "d", "e", "v">>,
      <<"b", "p", "f", "_", "n", "e", "t", "w", "o", "r", "k">>,
      <<"b", "p", "f", "_", "h", "o", "s", "t">>,
      <<"b", "p", "f", "_", "l", "x", "c">>,
      <<"b", "p", "f", "_", "o", "v", "e", "r", "l", "a", "y">> }

\* handle.LinkList: the names of the links of the host
LinkNames(h) == {l.name : l \in h.links}

\* netlink.LinkByName; Nil when there is no such link
LinkByName(h, name) ==
    IF \E l \in h.links : l.name = name
    THEN CHOOSE l \in h.links : l.name = name
    ELSE Nil

\* handle.LinkByIndex; Nil when there is no such link
LinkByIndex(h, index) ==
    IF \E l \in h.links : l.index = index
    THEN CHOOSE l \in h.links : l.index = index
    ELSE Nil

\* netlink.AddrList(link, family): the addresses of one family
AddrList(l, family) == {a \in l.addrs : a.ip.fam = family}

\* checkLinkAddrs: the listing works and the link has an address of the family
checkLinkAddrs(l, family) ==
    IF l.addrErr THEN FALSE
    ELSE IF AddrList(l, family) = {} THEN FALSE
    ELSE TRUE

\* checkDeviceWithIP: the device carries an address in every enabled family
checkDeviceWithIP(h, c, dev) ==
    LET l == LinkByName(h, dev)
    IN IF l = Nil THEN FALSE
       ELSE IF c.EnableIPv4 /\ ~checkLinkAddrs(l, "v4") THEN FALSE
       ELSE IF c.EnableIPv6 /\ ~checkLinkAddrs(l, "v6") THEN FALSE
       ELSE TRUE

\* One entry of a deviceFilter against a name.
matchEntry(h, c, entry, dev) ==
    IF HasSuffix(entry, <<"+">>)
    THEN HasPrefix(dev, TrimRight(entry, "+")) /\ checkDeviceWithIP(h, c, dev)
    ELSE dev = TrimSpace(entry)

\* deviceFilter.match: the empty list matches all; else the first entry that
\* matches decides, and no matching entry rejects.
match(h, c, lst, dev) ==
    IF Len(lst) = 0 THEN TRUE
    ELSE \E i \in 1..Len(lst) : matchEntry(h, c, lst[i], dev)

\* The loop over excludedDevicePrefixes.
isExcluded(name) ==
    \E i \in 1..Len(excludedDevicePrefixes) : HasPrefix(name, excludedDevicePrefixes[i])

\* netlink.FilterList(link, parent) and the scan for recognized BPF filters.
recognizedFilters(listing) ==
    {f \in listing.filters : f.bpf /\ \E p \in RecognizedPrograms : Contains(f.name, p)}

\* An audit that takes a failed egress listing for an empty one.
tcFiltersLostOnError(l) ==
    IF l.tcIn.err THEN FALSE
    ELSE recognizedFilters(l.tcIn)
            \cup (IF l.tcEg.err THEN {} ELSE recognizedFilters(l.tcEg)) = {}

\* DeviceManager.tcFiltersLost
tcFiltersLost(l) ==
    IF l.tcIn.err THEN FALSE
    ELSE IF l.tcEg.err THEN FALSE
    ELSE recognizedFilters(l.tcIn) \cup recognizedFilters(l.tcEg) = {}

\* supportL3Dev: the probe finds bpf_skb_change_head among the helpers
supportL3Dev(h) == h.l3Helper

\* DeviceManager.AreDevicesRequired
AreDevicesRequired(c) ==
    c.EnableNodePort \/ c.EnableHostFirewall \/ c.EnableBandwidthManager

\* A classifier that does not look at the kernel flags.
isViableDeviceWithoutFlagTest(h, c, flt, l3DevOK, hasDefaultRoute, link) ==
    IF isExcluded(link.name) THEN FALSE
    ELSE IF ~l3DevOK /\ ~link.hasMac THEN FALSE
    ELSE IF ~match(h, c, flt, link.name) THEN FALSE
    ELSE IF link.type = "veth" /\ ~hasDefaultRoute THEN FALSE
    ELSE IF link.type \in {"bridge", "openvswitch"} THEN FALSE
    ELSE IF link.master > 0 /\ LinkByIndex(h, link.master) # Nil
            /\ LinkByIndex(h, link.master).type \in {"bridge", "openvswitch", "bond", "team"}
         THEN FALSE
    ELSE TRUE

\* A classifier that takes a veth link with a default route whatever its
\* master is.
isViableDeviceVethByRoute(h, c, flt, l3DevOK, hasDefaultRoute, link) ==
    IF isExcluded(link.name) THEN FALSE
    ELSE IF link.slave \/ link.loopback THEN FALSE
    ELSE IF ~l3DevOK /\ ~link.hasMac THEN FALSE
    ELSE IF ~match(h, c, flt, link.name) THEN FALSE
    ELSE IF link.type = "veth" THEN hasDefaultRoute
    ELSE IF link.type \in {"bridge", "openvswitch"} THEN FALSE
    ELSE IF link.master > 0 /\ LinkByIndex(h, link.master) # Nil
            /\ LinkByIndex(h, link.master).type \in {"bridge", "openvswitch", "bond", "team"}
         THEN FALSE
    ELSE TRUE

\* DeviceManager.isViableDevice
isViableDevice(h, c, flt, l3DevOK, hasDefaultRoute, link) ==
    IF isExcluded(link.name) THEN FALSE
    ELSE IF link.slave \/ link.loopback THEN FALSE
    ELSE IF ~l3DevOK /\ ~link.hasMac THEN FALSE
    ELSE IF ~match(h, c, flt, link.name) THEN FALSE
    ELSE IF link.type = "veth" /\ ~hasDefaultRoute THEN FALSE
    ELSE IF link.type \in {"bridge", "openvswitch"} THEN FALSE
    ELSE IF link.master > 0 /\ LinkByIndex(h, link.master) # Nil
            /\ LinkByIndex(h, link.master).type \in {"bridge", "openvswitch", "bond", "team"}
         THEN FALSE
    ELSE TRUE

\* A scan that forgets to skip the routes of the kernel's local table.
relevantRoutesWithLocalTable(routes) ==
    {r \in routes : ~(r.dst # Nil /\ ~r.dst.globalUnicast)}

\* The routes updateDevicesFromRoutes looks at: the destination is nil or
\* global unicast, and the route is not in the kernel's local table.
relevantRoutes(routes) ==
    {r \in routes : ~(r.dst # Nil /\ ~r.dst.globalUnicast) /\ r.table # "local"}

\* DeviceManager.updateDevicesFromRoutes: the DeviceSet after the batch
updateDevicesFromRoutes(h, c, flt, devs, l3DevOK, routes) ==
    LET rel == relevantRoutes(routes)
        indices == {r.link : r \in rel}
        hasDefaultRoute(i) == \E r \in rel : r.link = i /\ r.dst = Nil
        viable == {i \in indices :
                     /\ LinkByIndex(h, i) # Nil
                     /\ LinkByIndex(h, i).name \notin devs
                     /\ isViableDevice(h, c, flt, l3DevOK, hasDefaultRoute(i),
                                       LinkByIndex(h, i))}
    IN devs \cup {LinkByIndex(h, i).name : i \in viable}

\* handle.RouteListFiltered(family, all tables)
RouteListFiltered(h, family) ==
    IF family = "all" THEN h.routes ELSE {r \in h.routes : r.fam = family}

\* DeviceManager.expandDeviceWildcards: [err, list]
expandDeviceWildcards(h, c, devs, linkListOk) ==
    IF ~linkListOk THEN [err |-> TRUE, list |-> <<>>]
    ELSE LET expandOne(iface) ==
                 IF HasSuffix(iface, <<"+">>)
                 THEN {n \in LinkNames(h) :
                         HasPrefix(n, TrimRight(iface, "+")) /\ checkDeviceWithIP(h, c, n)}
                 ELSE {iface}
             expanded == UNION {expandOne(devs[i]) : i \in 1..Len(devs)}
         IN IF Len(devs) > 0 /\ expanded = {}
            THEN [err |-> TRUE, list |-> <<>>]
            ELSE [err |-> FALSE, list |-> SortStrings(SetToSeq(expanded))]

\* findK8SNodeIPLink: the link carrying the node IP, Nil when there is none.
\* The kernel dumps addresses by link index; cilium_host is skipped.
findK8SNodeIPLink(h, addrListOk) ==
    IF h.nodeIP = Nil THEN Nil
    ELSE IF ~addrListOk THEN Nil
    ELSE LET cand == {l \in h.links :
                        /\ \E a \in l.addrs : a.ip = h.nodeIP
                        /\ l.name # HostDevice}
         IN IF cand = {} THEN Nil
            ELSE CHOOSE l \in cand : \A o \in cand : l.index <= o.index

\* A write that is lost: the configured list stays as it was.
SetDevicesDropped(c, lst) == c

\* option.Config.SetDevices: the configured device list is replaced
SetDevices(c, lst) == [c EXCEPT !.Devices = lst]

\* DeviceManager.expandDevices: [err, cfg]
expandDevices(h, c, linkListOk) ==
    LET e == expandDeviceWildcards(h, c, c.Devices, linkListOk)
    IN IF e.err THEN [err |-> TRUE, cfg |-> c]
       ELSE [err |-> FALSE, cfg |-> SetDevices(c, e.list)]

\* DeviceManager.expandDirectRoutingDevice: [err, cfg]
expandDirectRoutingDevice(h, c, linkListOk) ==
    IF c.DirectRoutingDevice = <<>> THEN [err |-> FALSE, cfg |-> c]
    ELSE LET e == expandDeviceWildcards(h, c, <<c.DirectRoutingDevice>>, linkListOk)
         IN IF e.err THEN [err |-> TRUE, cfg |-> c]
            ELSE [err |-> FALSE, cfg |-> [c EXCEPT !.DirectRoutingDevice = e.list[1]]]

\* The family of the route listing of Detect.
routeFamily(c) ==
    IF c.EnableIPv4 /\ ~c.EnableIPv6 THEN "v4"
    ELSE IF ~c.EnableIPv4 /\ c.EnableIPv6 THEN "v6"
    ELSE "all"

\* What a Detect call ends with: the error ("" for none), the DeviceSet and
\* the configuration it leaves, the list it returns, and whether it listed routes.
DetectResult(e, devs, c, lst, listed) ==
    [err |-> e, devices |-> devs, cfg |-> c, list |-> lst, routesListed |-> listed]

\* A choice that forgets the device with the node IP.
directRoutingDeviceSoleOnly(devs, k8sNodeDev) ==
    IF Cardinality(devs) = 1 THEN CHOOSE d \in devs : TRUE ELSE <<>>

\* The direct-routing device Detect chooses when none is configured: the
\* only device found, otherwise the device with the node IP; none ("") when
\* there is neither, and Detect fails.
directRoutingDevice(devs, k8sNodeDev) ==
    IF Cardinality(devs) = 1 THEN CHOOSE d \in devs : TRUE
    ELSE IF k8sNodeDev # <<>> THEN k8sNodeDev
    ELSE <<>>

\* Detect, from the resolution of the direct-routing and the multicast device on.
detectRoutingDevices(h, c, devs0, in, listed) ==
    LET drConfigured == c.DirectRoutingDeviceRequired /\ c.DirectRoutingDevice # <<>>
        devs1 == IF drConfigured THEN devs0 \cup {c.DirectRoutingDevice} ELSE devs0
        detectDirectRoutingDev == c.DirectRoutingDeviceRequired /\ ~drConfigured
        mcConfigured == c.IPv6MCastDevice # <<>>
        devs2 == IF mcConfigured THEN devs1 \cup {c.IPv6MCastDevice} ELSE devs1
        detectIPv6MCastDev == c.EnableIPv6NDP /\ ~mcConfigured
        k8sNodeLink == findK8SNodeIPLink(h, in.addrListOk)
        k8sNodeDev == IF k8sNodeLink # Nil THEN k8sNodeLink.name ELSE <<>>
        devs3 == IF k8sNodeLink # Nil THEN devs2 \cup {k8sNodeDev} ELSE devs2
        c1 == IF ~detectDirectRoutingDev THEN c
              ELSE [c EXCEPT !.DirectRoutingDevice = directRoutingDevice(devs3, k8sNodeDev)]
        c2 == [c1 EXCEPT !.IPv6MCastDevice = k8sNodeDev]
    IN IF ~(detectDirectRoutingDev \/ detectIPv6MCastDev)
       THEN DetectResult("", devs2, SetDevices(c, getDeviceList(devs2)),
                         getDeviceList(devs2), listed)
       ELSE IF k8sNodeLink = Nil /\ c.K8sEnabled
       THEN DetectResult("node IP not found", devs2, c, <<>>, listed)
       ELSE IF detectDirectRoutingDev /\ Cardinality(devs3) # 1 /\ k8sNodeDev = <<>>
       THEN DetectResult("direct routing device undetermined", devs3, c, <<>>, listed)
       ELSE IF detectIPv6MCastDev /\ ~(k8sNodeLink # Nil /\ k8sNodeLink.multicast)
       THEN DetectResult("multicast device undetermined", devs3, c1, <<>>, listed)
       ELSE LET c3 == IF detectIPv6MCastDev THEN c2 ELSE c1
            IN DetectResult("", devs3, SetDevices(c3, getDeviceList(devs3)),
                            getDeviceList(devs3), listed)

\* A test that forgets to look at the configured devices.
detectFromRoutesAlways(c) == AreDevicesRequired(c)

\* The test of Detect for the detection from the routes: no device is
\* configured and a feature needs the devices.
detectFromRoutes(c) == Len(c.Devices) = 0 /\ AreDevicesRequired(c)

\* DeviceManager.Detect, between its Lock and its deferred Unlock. in gives the
\* outcome of each kernel listing of the call.
Detect(h, c, flt, in) ==
    LET e1 == expandDevices(h, c, in.linkListOk1)
    IN IF e1.err THEN DetectResult("expand devices", {}, c, <<>>, FALSE)
       ELSE LET e2 == expandDirectRoutingDevice(h, e1.cfg, in.linkListOk2)
            IN IF e2.err
               THEN DetectResult("expand direct routing device", {}, e1.cfg, <<>>, FALSE)
               ELSE LET c2 == e2.cfg
                        l3DevOK == IF ~c2.EnableHostLegacyRouting
                                   THEN supportL3Dev(h) ELSE TRUE
                    IN IF detectFromRoutes(c2)
                       THEN IF ~in.routeListOk
                            THEN DetectResult("route list", {}, c2, <<>>, TRUE)
                            ELSE detectRoutingDevices(h, c2,
                                     updateDevicesFromRoutes(h, c2, flt, {}, l3DevOK,
                                         RouteListFiltered(h, routeFamily(c2))),
                                     in, TRUE)
                       ELSE detectRoutingDevices(h, c2, Range(c2.Devices), in, FALSE)

\* The inputs of a Detect call: which kernel listings work.
DetectInputs ==
    [linkListOk1 : BOOLEAN, linkListOk2 : BOOLEAN,
     routeListOk : BOOLEAN, addrListOk : BOOLEAN]

\* ReadDynamicDevices: a pattern name+ for each file of the directory
ReadDynamicDevices(h) == {f \o <<"+">> : f \in h.dynFiles}

\* The effective filter of a tick: the configured and the dynamic patterns,
\* as sets.String.List() orders them.
effectiveFilter(h, vp, dynOk) ==
    SortStrings(SetToSeq(Range(vp) \cup (IF dynOk THEN ReadDynamicDevices(h) ELSE {})))

\* An address check that takes a failed listing for a changed address.
addrChangedOnListError(h, l) ==
    /\ \E m \in h.masq : m.dev = l.name
    /\ LET oldAddr == (CHOOSE m \in h.masq : m.dev = l.name).ip
       IN l.addrErr \/ ~\E a \in AddrList(l, "v4") :
                           ~(a.secondary \/ a.deprecated) /\ a.ip = oldAddr

\* The primary IPv4 address check of checkStaticDevices for one tracked device.
addrChanged(h, l) ==
    /\ \E m \in h.masq : m.dev = l.name
    /\ ~l.addrErr
    /\ LET oldAddr == (CHOOSE m \in h.masq : m.dev = l.name).ip
       IN ~\E a \in AddrList(l, "v4") :
              ~(a.secondary \/ a.deprecated) /\ a.ip = oldAddr

\* A test that forgets the filter.
keptWithoutFilterTest(h, c, flt, name) == ~isExcluded(name)

\* A test that forgets the excluded prefixes.
keptWithoutPrefixTest(h, c, flt, name) == match(h, c, flt, name)

\* The test of the first loop of checkStaticDevices: the filter matches the
\* name and the name has no excluded prefix.
kept(h, c, flt, name) == ~(~match(h, c, flt, name) \/ isExcluded(name))

\* A first loop that does not load a lost configuration again.
lostConfigIgnored(currentExistOnHost, devs) == {}

\* The first loop of checkStaticDevices, for the links it keeps: those that
\* are not tracked have lost their configuration and are tracked again.
lostConfig(currentExistOnHost, devs) == currentExistOnHost \ devs

\* A second loop that leaves the devices that are gone where they are.
lostOnHostKept(devs, currentExistOnHost) == {}

\* The second loop of checkStaticDevices: the tracked devices that are not
\* among the links the first loop kept.
lostOnHost(devs, currentExistOnHost) == devs \ currentExistOnHost

\* What a tick found, step by step.
checkFindings(h, c, vp, devs, in) ==
    LET flt == effectiveFilter(h, vp, in.dynOk)
        passing == {l \in h.links : kept(h, c, flt, l.name)}
        currentExistOnHost == {l.name : l \in passing}
        untracked == {n \in devs : n \in LinkNames(h) /\ n \notin currentExistOnHost}
        added == lostConfig(currentExistOnHost, devs)
        hooksLost == {l.name : l \in {k \in passing : k.name \in devs /\ tcFiltersLost(k)}}
        devs1 == (devs \ untracked) \cup added
        vanished == lostOnHost(devs1, currentExistOnHost)
        devs2 == devs1 \ vanished
        moved == {l.name : l \in {k \in passing : k.name \in devs2 /\ addrChanged(h, k)}}
    IN [filter |-> flt, untracked |-> untracked, added |-> added,
        hooksLost |-> hooksLost, vanished |-> vanished, moved |-> moved,
        devices |-> devs2]

\* A report of changed whatever was found.
changedByAlways(f) == TRUE

\* A report that forgets the devices whose hooks are lost.
changedByWithoutHooks(f) ==
    f.untracked # {} \/ f.added # {} \/ f.vanished # {} \/ f.moved # {}

\* A report that forgets the devices that vanished from the host.
changedByForgetful(f) ==
    f.untracked # {} \/ f.added # {} \/ f.hooksLost # {} \/ f.moved # {}

\* checkStaticDevices reports changed for every removal and addition, and
\* for a device whose hooks are lost or whose address moved.
changedBy(f) ==
    f.untracked # {} \/ f.added # {} \/ f.hooksLost # {} \/ f.vanished # {} \/ f.moved # {}

\* A check that goes on with an empty filter, which matches every name.
checkStaticDevicesWithoutFilterTest(h, c, vp, devs, in) ==
    IF ~in.linkListOk THEN [changed |-> FALSE, devices |-> devs]
    ELSE LET f == checkFindings(h, c, vp, devs, in)
         IN [changed |-> changedBy(f), devices |-> f.devices]

\* A check that takes a failed link listing for a host without links.
checkStaticDevicesOnListError(h, c, vp, devs, in) ==
    LET h1 == IF in.linkListOk THEN h ELSE [h EXCEPT !.links = {}]
    IN IF Len(effectiveFilter(h1, vp, in.dynOk)) = 0
       THEN [changed |-> FALSE, devices |-> devs]
       ELSE LET f == checkFindings(h1, c, vp, devs, in)
            IN [changed |-> changedBy(f), devices |-> f.devices]

\* DeviceManager.checkStaticDevices: [changed, devices]
checkStaticDevices(h, c, vp, devs, in) ==
    IF ~in.linkListOk THEN [changed |-> FALSE, devices |-> devs]
    ELSE IF Len(effectiveFilter(h, vp, in.dynOk)) = 0
    THEN [changed |-> FALSE, devices |-> devs]
    ELSE LET f == checkFindings(h, c, vp, devs, in)
         IN [changed |-> changedBy(f), devices |-> f.devices]

\* The inputs of a tick: which listings work.
TickInputs == [linkListOk : BOOLEAN, dynOk : BOOLEAN]

---------------------------------------------------------------------------
(* The hosts and configurations the model runs on *)

\* The number of ethN links the host can have.
MaxEth == 2

\* The capacity of devicesChan.
ChanCap == 1

Digit(i) == Alphabet[i + 3]

Eth(i) == <<"e", "t", "h", Digit(i)>>

Lo == <<"l", "o">>

EthPlus == <<"e", "t", "h", "+">>

IP4(a) == [fam |-> "v4", ip |-> a]

\* Route destinations: a global unicast prefix, and one that is not.
GlobalDst == [globalUnicast |-> TRUE]

LocalDst == [globalUnicast |-> FALSE]

\* A filter of the datapath on a hook, as FilterList returns it.
HostFilter == [bpf |-> TRUE, name |-> <<"b", "p", "f", "_", "h", "o", "s", "t">>]

\* An ordinary link with one primary IPv4 address and the datapath's hooks.
Link(name, index) ==
    [name |-> name, index |-> index, slave |-> FALSE, loopback |-> (name = Lo),
     hasMac |-> (name # Lo), type |-> "device", master |-> 0, multicast |-> (name # Lo),
     addrs |-> {[ip |-> IP4(index), secondary |-> FALSE, deprecated |-> FALSE]},
     addrErr |-> FALSE,
     tcIn |-> [err |-> FALSE, filters |-> {HostFilter}],
     tcEg |-> [err |-> FALSE, filters |-> {}]]

\* A host with the loopback link and the given ethN links: a default route
\* through eth0, a global unicast route through each other link, the node IP
\* on eth1.
HostWith(eths) ==
    [links |-> {Link(Lo, 1)} \cup {Link(Eth(i), i + 2) : i \in eths},
     routes |-> {[dst |-> (IF i = 0 THEN Nil ELSE GlobalDst), table |-> "main",
                  fam |-> "v4", link |-> i + 2] : i \in 0..(MaxEth - 1)}
                \cup {[dst |-> LocalDst, table |-> "local", fam |-> "v4", link |-> 1]},
     nodeIP |-> IP4(3),
     l3Helper |-> TRUE,
     masq |-> {},
     dynFiles |-> {}]

\* The hosts: eth0 to eth(k-1) are up, for each k up to MaxEth.
Hosts == {HostWith(0..(k - 1)) : k \in 0..MaxEth}

\* The configuration with every feature off and nothing configured.
BaseConfig ==
    [Devices |-> <<>>, DirectRoutingDevice |-> <<>>, IPv6MCastDevice |-> <<>>,
     EnableIPv4 |-> TRUE, EnableIPv6 |-> FALSE,
     EnableNodePort |-> TRUE, EnableHostFirewall |-> FALSE,
     EnableBandwidthManager |-> FALSE, EnableHostLegacyRouting |-> FALSE,
     EnableIPv6NDP |-> FALSE, DirectRoutingDeviceRequired |-> FALSE,
     K8sEnabled |-> TRUE]

Configs ==
    { \* detection from routes, the direct-routing device from the node IP
      [BaseConfig EXCEPT !.DirectRoutingDeviceRequired = TRUE],
      \* a wildcard
      [BaseConfig EXCEPT !.Devices = <<EthPlus>>],
      \* explicit names
      [BaseConfig EXCEPT !.Devices = <<Eth(1), Lo>>],
      \* no device pattern, a configured direct-routing device, and the
      \* multicast device from the node IP
      [BaseConfig EXCEPT !.DirectRoutingDeviceRequired = TRUE,
                         !.DirectRoutingDevice = Lo,
                         !.EnableIPv6NDP = TRUE] }

---------------------------------------------------------------------------
(* The state machine *)

IdleDetect == [pc |-> "idle", err |-> "", list |-> <<>>, routesListed |-> FALSE,
               cfg0 |-> Nil, dev0 |-> {}]

\* No tick to remember and no list returned.
NoPast == [tick |-> Nil, detect |-> Nil]

NoLocals == [links |-> {}, listed |-> FALSE, filter |-> <<>>,
             changed |-> FALSE, devices |-> <<>>]

Init ==
    /\ devices = {}
    /\ cfg \in Configs
    /\ filter = cfg.Devices
    /\ viper = cfg.Devices
    /\ mu = "free"
    /\ host \in Hosts
    /\ det = IdleDetect
    /\ lpc = "init"
    /\ loc = NoLocals
    /\ chan = <<>>
    /\ tickReady = FALSE
    /\ tickerOn = FALSE
    /\ cancelled = FALSE
    /\ latest = <<>>
    /\ past = NoPast

\* A Lock that does not wait for the holder.
LockNoWait(who) == mu' = who

\* dm.Lock()
Lock(who) == mu = "free" /\ mu' = who

\* An Unlock that leaves the lock with its holder.
UnlockKept == mu' = mu

\* dm.Unlock()
Unlock == mu' = "free"

\* devicesChan <- v: blocks while the buffer is full
Send(v) == Len(chan) < ChanCap /\ chan' = Append(chan, v)

(* Detect *)

DetectLock ==
    /\ det.pc = "idle"
    /\ Lock("detect")
    /\ det' = [det EXCEPT !.pc = "locked"]
    /\ UNCHANGED <<devices, filter, cfg, viper, host, lpc, loc, chan,
                   tickReady, tickerOn, cancelled, latest, past>>

DetectRun ==
    /\ det.pc = "locked"
    /\ \E in \in DetectInputs :
         LET r == Detect(host, cfg, filter, in)
         IN /\ devices' = r.devices
            /\ cfg' = r.cfg
            /\ det' = [pc |-> "ret", err |-> r.err, list |-> r.list,
                       routesListed |-> r.routesListed,
                       cfg0 |-> cfg, dev0 |-> devices]
    /\ past' = IF past.tick = Nil THEN past
               ELSE [past EXCEPT !.tick.detected = TRUE]
    /\ UNCHANGED <<filter, mu, viper, host, lpc, loc, chan,
                   tickReady, tickerOn, cancelled, latest>>

DetectReturn ==
    /\ det.pc = "ret"
    /\ Unlock
    /\ det' = IdleDetect
    /\ past' = IF det.err = "" /\ Len(det.list) > 0
               THEN [past EXCEPT !.detect = [list |-> det.list]]
               ELSE past
    /\ UNCHANGED <<devices, filter, cfg, viper, host, lpc, loc, chan,
                   tickReady, tickerOn, cancelled, latest>>

(* Listen: the startup diff *)

\* A startup diff that removes the members that are on the host.
startupDiffInverted(devs, linksByName) ==
    LET gone == {n \in devs : n \in linksByName}
    IN [changed |-> gone # {}, devices |-> devs \ gone]

\* The startup diff: the members that are not among the listed links go.
startupDiff(devs, linksByName) ==
    LET gone == {n \in devs : n \notin linksByName}
    IN [changed |-> gone # {}, devices |-> devs \ gone]

ListenLinkList ==
    /\ lpc = "init"
    /\ \E ok \in BOOLEAN :
         IF ok
         THEN /\ lpc' = "s_lock"
              /\ loc' = [loc EXCEPT !.links = LinkNames(host), !.listed = TRUE]
         ELSE /\ lpc' = "spawn"
              /\ loc' = loc
    /\ UNCHANGED <<devices, filter, mu, cfg, viper, host, det, chan,
                   tickReady, tickerOn, cancelled, latest, past>>

ListenStartLock ==
    /\ lpc = "s_lock"
    /\ Lock("listen")
    /\ lpc' = "s_diff"
    /\ UNCHANGED <<devices, filter, cfg, viper, host, det, loc, chan,
                   tickReady, tickerOn, cancelled, latest, past>>

ListenStartDiff ==
    /\ lpc = "s_diff"
    /\ LET r == startupDiff(devices, loc.links)
       IN /\ devices' = r.devices
          /\ loc' = [loc EXCEPT !.changed = r.changed,
                                !.devices = getDeviceList(r.devices)]
    /\ lpc' = "s_unlock"
    /\ UNCHANGED <<filter, mu, cfg, viper, host, det, chan,
                   tickReady, tickerOn, cancelled, latest, past>>

ListenStartUnlock ==
    /\ lpc = "s_unlock"
    /\ Unlock
    /\ lpc' = IF loc.changed THEN "s_emit" ELSE "spawn"
    /\ latest' = IF loc.changed THEN loc.devices ELSE latest
    /\ UNCHANGED <<devices, filter, cfg, viper, host, det, loc, chan,
                   tickReady, tickerOn, cancelled, past>>

ListenStartEmit ==
    /\ lpc = "s_emit"
    /\ Send(loc.devices)
    /\ lpc' = "spawn"
    /\ UNCHANGED <<devices, filter, mu, cfg, viper, host, det, loc,
                   tickReady, tickerOn, cancelled, latest, past>>

\* go func(): the task starts with its ticker, and Listen returns the channel.
ListenSpawn ==
    /\ lpc = "spawn"
    /\ lpc' = "wait"
    /\ tickerOn' = TRUE
    /\ loc' = NoLocals
    /\ UNCHANGED <<devices, filter, mu, cfg, viper, host, det, chan,
                   tickReady, cancelled, latest, past>>

(* Listen: the task *)

\* select: case <-ticker.C
LoopSelectTick ==
    /\ lpc = "wait"
    /\ tickReady
    /\ tickReady' = FALSE
    /\ lpc' = "t_lock"
    /\ UNCHANGED <<devices, filter, mu, cfg, viper, host, det, loc, chan,
                   tickerOn, cancelled, latest, past>>

\* A cancellation branch that goes on to one more check.
LoopSelectDoneLate ==
    /\ lpc = "wait"
    /\ cancelled
    /\ tickerOn' = FALSE
    /\ lpc' = "t_lock"
    /\ UNCHANGED <<devices, filter, mu, cfg, viper, host, det, loc, chan,
                   tickReady, cancelled, latest, past>>

\* select: case <-ctx.Done()
LoopSelectDone ==
    /\ lpc = "wait"
    /\ cancelled
    /\ tickerOn' = FALSE
    /\ lpc' = "done"
    /\ UNCHANGED <<devices, filter, mu, cfg, viper, host, det, loc, chan,
                   tickReady, cancelled, latest, past>>

LoopLock ==
    /\ lpc = "t_lock"
    /\ Lock("listen")
    /\ lpc' = "t_check"
    /\ UNCHANGED <<devices, filter, cfg, viper, host, det, loc, chan,
                   tickReady, tickerOn, cancelled, latest, past>>

LoopCheck ==
    /\ lpc = "t_check"
    /\ \E in \in TickInputs :
         LET r == checkStaticDevices(host, cfg, viper, devices, in)
         IN /\ devices' = r.devices
            /\ loc' = [links |-> {}, listed |-> in.linkListOk,
                       filter |-> IF in.linkListOk
                                  THEN effectiveFilter(host, viper, in.dynOk)
                                  ELSE <<>>,
                       changed |-> r.changed,
                       devices |-> getDeviceList(r.devices)]
            /\ past' = [past EXCEPT !.tick =
                           IF in.linkListOk
                           THEN [filter |-> effectiveFilter(host, viper, in.dynOk),
                                 detected |-> FALSE]
                           ELSE Nil]
    /\ lpc' = "t_unlock"
    /\ UNCHANGED <<filter, mu, cfg, viper, host, det, chan,
                   tickReady, tickerOn, cancelled, latest>>

LoopUnlock ==
    /\ lpc = "t_unlock"
    /\ Unlock
    /\ lpc' = IF loc.changed THEN "t_emit" ELSE "wait"
    /\ loc' = IF loc.changed THEN [NoLocals EXCEPT !.changed = TRUE,
                                                  !.devices = loc.devices]
              ELSE NoLocals
    /\ latest' = IF loc.changed THEN loc.devices ELSE latest
    /\ UNCHANGED <<devices, filter, cfg, viper, host, det, chan,
                   tickReady, tickerOn, cancelled, past>>

LoopEmit ==
    /\ lpc = "t_emit"
    /\ Send(loc.devices)
    /\ lpc' = "wait"
    /\ loc' = NoLocals
    /\ UNCHANGED <<devices, filter, mu, cfg, viper, host, det,
                   tickReady, tickerOn, cancelled, latest, past>>

(* The environment *)

\* The ticker puts a tick into ticker.C, which holds one.
TickFire ==
    /\ tickerOn
    /\ ~tickReady
    /\ tickReady' = TRUE
    /\ UNCHANGED <<devices, filter, mu, cfg, viper, host, det, lpc, loc, chan,
                   tickerOn, cancelled, latest, past>>

\* The context is cancelled.
Cancel ==
    /\ ~cancelled
    /\ cancelled' = TRUE
    /\ UNCHANGED <<devices, filter, mu, cfg, viper, host, det, lpc, loc, chan,
                   tickReady, tickerOn, latest, past>>

\* The consumer receives from the channel Listen returned.
Receive ==
    /\ lpc \in {"wait", "t_lock", "t_check", "t_unlock", "t_emit", "done"}
    /\ Len(chan) > 0
    /\ chan' = Tail(chan)
    /\ UNCHANGED <<devices, filter, mu, cfg, viper, host, det, lpc, loc,
                   tickReady, tickerOn, cancelled, latest, past>>

\* Links appear on the host and disappear from it.
HostChange ==
    /\ host' \in Hosts \ {host}
    /\ past' = [past EXCEPT !.tick = Nil]
    /\ UNCHANGED <<devices, filter, mu, cfg, viper, det, lpc, loc, chan,
                   tickReady, tickerOn, cancelled, latest>>

\* The steps of the task Listen starts.
TaskStep ==
    \/ LoopSelectTick
    \/ LoopSelectDone
    \/ LoopLock
    \/ LoopCheck
    \/ LoopUnlock
    \/ LoopEmit

Next ==
    \/ DetectLock
    \/ DetectRun
    \/ DetectReturn
    \/ ListenLinkList
    \/ ListenStartLock
    \/ ListenStartDiff
    \/ ListenStartUnlock
    \/ ListenStartEmit
    \/ ListenSpawn
    \/ TaskStep
    \/ TickFire
    \/ Cancel
    \/ Receive
    \/ HostChange

Spec == Init /\ [][Next]_vars

\* The task's steps are taken when they can be; select picks among its ready
\* cases at random, so a ready case is not passed over for ever, and a
\* waiter for the lock gets it. The consumer, the ticker, the callers of
\* Detect and the host owe nothing.
FairSpec ==
    /\ Spec
    /\ SF_vars(LoopSelectDone)
    /\ SF_vars(LoopLock)
    /\ WF_vars(LoopCheck)
    /\ WF_vars(LoopUnlock)
    /\ WF_vars(LoopEmit)
    /\ WF_vars(DetectRun)
    /\ WF_vars(DetectReturn)

---------------------------------------------------------------------------
(* One call at a time: Detect, a tick, the filter and the wildcard         *)
(* expansion on a wider range of hosts and configurations                  *)

Eth12 == <<"e", "t", "h", "1", "2">>

Veth0 == <<"v", "e", "t", "h", "0">>

\* Patterns: all trailing + belong to the wildcard mark for TrimRight; white
\* space around an exact name.
EthPlusPlus == <<"e", "t", "h", "+", "+">>

SpacedEth0 == <<" ", "e", "t", "h", "0", " ">>

\* The names a DeviceSet and a filter are tried on.
CallNames == {Lo, Eth(0), Eth(1), Eth12, Veth0}

\* The device lists a user configures.
CallDeviceLists ==
    { <<>>, <<EthPlus>>, <<Eth(0)>>, <<Eth(1), Eth(0), Eth(1)>>,
      <<EthPlusPlus>>, <<SpacedEth0>>, <<Veth0, Eth12, EthPlus>> }

Route(dst, table, link) == [dst |-> dst, table |-> table, fam |-> "v4", link |-> link]

Addr(a, secondary, deprecated) ==
    [ip |-> IP4(a), secondary |-> secondary, deprecated |-> deprecated]

\* A filter of another owner, and a filter that is no BPF filter.
OtherFilter == [bpf |-> TRUE, name |-> <<"f", "o", "o">>]

U32Filter == [bpf |-> FALSE, name |-> <<>>]

\* The links of the wider hosts: lo, eth0, eth1, eth12 and the veth veth0.
CallLinks ==
    {Link(Lo, 1), Link(Eth(0), 2), Link(Eth(1), 3), Link(Eth12, 4),
     [Link(Veth0, 5) EXCEPT !.type = "veth"]}

\* Their routes: the default route through eth0, a global unicast route
\* through eth1 and through veth0, for eth12 a route of the local table and
\* a route that is not global unicast, and a route through a link that is gone.
CallRoutes ==
    {Route(Nil, "main", 2), Route(GlobalDst, "main", 3), Route(GlobalDst, "main", 5),
     Route(GlobalDst, "local", 4), Route(LocalDst, "main", 4),
     Route(GlobalDst, "main", 9)}

HostOf(links, routes, masq, dynFiles) ==
    [links |-> links, routes |-> routes, nodeIP |-> IP4(3), l3Helper |-> TRUE,
     masq |-> masq, dynFiles |-> dynFiles]

\* Hooks: eth0 has lost its filters, eth1 has no address, eth12 has filters
\* that are not the datapath's, the egress listing of veth0 fails.
DegradedLinks ==
    {Link(Lo, 1),
     [Link(Eth(0), 2) EXCEPT !.tcIn.filters = {}],
     [Link(Eth(1), 3) EXCEPT !.addrs = {}],
     [Link(Eth12, 4) EXCEPT !.tcIn.filters = {OtherFilter}, !.tcEg.filters = {U32Filter}],
     [Link(Veth0, 5) EXCEPT !.type = "veth", !.tcIn.filters = {}, !.tcEg.err = TRUE]}

\* Addresses: eth0 has a new primary address, eth1 has a new primary address
\* and the recorded one as a secondary, the recorded address of eth12 is
\* deprecated.
MovedLinks ==
    {Link(Lo, 1),
     [Link(Eth(0), 2) EXCEPT !.addrs = {Addr(7, FALSE, FALSE)}],
     [Link(Eth(1), 3) EXCEPT !.addrs = {Addr(8, FALSE, FALSE), Addr(3, TRUE, FALSE)}],
     [Link(Eth12, 4) EXCEPT !.addrs = {Addr(4, FALSE, TRUE)}],
     [Link(Veth0, 5) EXCEPT !.type = "veth"]}

\* Addresses: the address listing of eth12 fails.
UnlistedLinks ==
    {Link(Lo, 1), Link(Eth(0), 2), Link(Eth(1), 3),
     [Link(Eth12, 4) EXCEPT !.addrErr = TRUE],
     [Link(Veth0, 5) EXCEPT !.type = "veth"]}

\* The masquerade addresses the node recorded: those Link gives.
RecordedAddrs ==
    {[dev |-> Eth(0), ip |-> IP4(2)], [dev |-> Eth(1), ip |-> IP4(3)],
     [dev |-> Eth12, ip |-> IP4(4)]}

CallHosts ==
    Hosts \cup
    { \* one link, eth0, with the default route
      HostOf({Link(Eth(0), 2)}, {Route(Nil, "main", 2)}, {}, {}),
      \* all links in order, nothing recorded
      HostOf(CallLinks, CallRoutes, {}, {}),
      \* all links in order, the recorded addresses in place
      HostOf(CallLinks, CallRoutes, RecordedAddrs, {}),
      \* the default route through veth0 as well
      HostOf(CallLinks, CallRoutes \cup {Route(Nil, "main", 5)}, {}, {}),
      HostOf(DegradedLinks, CallRoutes, {}, {}),
      HostOf(MovedLinks, CallRoutes, RecordedAddrs, {}),
      \* records for eth0 and for eth12, whose address cannot be compared
      HostOf(UnlistedLinks, CallRoutes,
             {[dev |-> Eth(0), ip |-> IP4(2)], [dev |-> Eth12, ip |-> IP4(9)]}, {}),
      \* a dynamic device directory with the entry veth
      HostOf(CallLinks, CallRoutes, {}, {<<"v", "e", "t", "h">>}),
      \* no eth link at all
      HostOf({Link(Lo, 1), [Link(Veth0, 5) EXCEPT !.type = "veth"]},
             {Route(Nil, "main", 5)}, {}, {}) }

\* The configurations of a Detect call: node-port is on, or no feature needs
\* the devices and none is configured.
CallConfigs ==
    {[BaseConfig EXCEPT !.Devices = d, !.DirectRoutingDeviceRequired = r,
                        !.DirectRoutingDevice = dr, !.IPv6MCastDevice = mc,
                        !.EnableIPv6NDP = ndp, !.K8sEnabled = k,
                        !.EnableNodePort = (np \/ Len(d) > 0)] :
        d \in CallDeviceLists, r \in BOOLEAN, dr \in {<<>>, Eth(1)},
        mc \in {<<>>, Eth12}, ndp \in BOOLEAN, k \in BOOLEAN, np \in BOOLEAN}

\* The configurations of a tick: the enabled address families.
CallTickConfigs == {BaseConfig, [BaseConfig EXCEPT !.EnableIPv6 = TRUE]}

\* A Detect call has taken the lock, or the task is in a tick with the lock.
CallInit ==
    /\ host \in CallHosts
    /\ \/ /\ cfg \in CallConfigs
          /\ viper = cfg.Devices
          /\ devices = {}
          /\ mu = "detect"
          /\ det = [IdleDetect EXCEPT !.pc = "locked"]
          /\ lpc = "init"
          /\ tickerOn = FALSE
       \/ /\ cfg \in CallTickConfigs
          /\ viper \in CallDeviceLists
          /\ devices \in SUBSET CallNames
          /\ mu = "listen"
          /\ det = IdleDetect
          /\ lpc = "t_check"
          /\ tickerOn = TRUE
    /\ filter = viper
    /\ loc = NoLocals
    /\ chan = <<>>
    /\ tickReady = FALSE
    /\ cancelled = FALSE
    /\ latest = <<>>
    /\ past = NoPast

\* filter.match(name) in the first loop of checkStaticDevices, for one link
\* name; what it returns is kept among the task's locals.
CallMatch ==
    /\ lpc = "t_check"
    /\ lpc' = "t_matched"
    /\ \E n \in CallNames, dynOk \in BOOLEAN :
         LET flt == effectiveFilter(host, viper, dynOk)
         IN loc' = [links |-> {}, listed |-> TRUE, filter |-> flt,
                    changed |-> FALSE, devices |-> <<>>,
                    fn |-> "match", dev |-> n, ret |-> match(host, cfg, flt, n)]
    /\ UNCHANGED <<devices, filter, mu, cfg, viper, host, det, chan,
                   tickReady, tickerOn, cancelled, latest, past>>

\* dm.expandDeviceWildcards(option.Config.GetDevices(), ...) in expandDevices;
\* what it returns is kept in the frame of Detect.
CallExpandDeviceWildcards ==
    /\ det.pc = "locked"
    /\ \E ok \in BOOLEAN :
         LET r == expandDeviceWildcards(host, cfg, cfg.Devices, ok)
         IN det' = [pc |-> "expanded", err |-> IF r.err THEN "expand devices" ELSE "",
                    list |-> r.list, routesListed |-> FALSE,
                    cfg0 |-> Nil, dev0 |-> {},
                    fn |-> "expandDeviceWildcards", linkListOk |-> ok]
    /\ UNCHANGED <<devices, filter, mu, cfg, viper, host, lpc, loc, chan,
                   tickReady, tickerOn, cancelled, latest, past>>

CallNext ==
    \/ DetectRun
    \/ DetectReturn
    \/ LoopCheck
    \/ LoopUnlock
    \/ LoopEmit
    \/ CallMatch
    \/ CallExpandDeviceWildcards

CallSpec == CallInit /\ [][CallNext]_vars

---------------------------------------------------------------------------
(* One call of the Viability Classifier and of the filter audit, on links   *)
(* of every kind                                                           *)

Lxc0 == <<"l", "x", "c", "0">>

Cni0 == <<"c", "n", "i", "0">>

Docker0 == <<"d", "o", "c", "k", "e", "r", "0">>

\* The names of the links that are classified.
ClassifyNames == {Eth(0), Veth0, Lo, Lxc0, Cni0, Docker0, HostDevice}

\* Link.Type() of the links that are classified.
ClassifyTypes == {"device", "veth", "bridge", "openvswitch"}

\* The links a classified link can have as its master: a plain device, a
\* bridge, a bond, a team and a virtual switch.
MasterLinks ==
    {Link(Eth(1), 3),
     [Link(<<"b", "r", "0">>, 8) EXCEPT !.type = "bridge"],
     [Link(<<"b", "o", "n", "d", "0">>, 9) EXCEPT !.type = "bond"],
     [Link(<<"t", "0">>, 10) EXCEPT !.type = "team"],
     [Link(<<"o", "v", "s", "0">>, 11) EXCEPT !.type = "openvswitch"]}

\* Attrs().MasterIndex: none, one of the masters, or a link that is gone.
MasterIndices == {0, 3, 7, 8, 9, 10, 11}

\* The link that is classified, at index 2.
ClassifyLinks ==
    {[Link(n, 2) EXCEPT !.slave = s, !.loopback = lb, !.hasMac = m,
                        !.type = t, !.master = mi] :
        n \in ClassifyNames, s \in BOOLEAN, lb \in BOOLEAN, m \in BOOLEAN,
        t \in ClassifyTypes, mi \in MasterIndices}

\* The patterns the manager was built with.
ClassifyFilters == {<<>>, <<EthPlus>>, <<Veth0>>}

\* Filters with a recognized program name inside a longer name, and with a
\* recognized name on a filter that is no BPF filter.
LxcFilter ==
    [bpf |-> TRUE, name |-> <<"a", "_", "b", "p", "f", "_", "l", "x", "c", "_", "o">>]

NamedU32Filter == [bpf |-> FALSE, name |-> <<"b", "p", "f", "_", "h", "o", "s", "t">>]

\* What FilterList can return for one hook.
FilterListings ==
    [err : BOOLEAN,
     filters : SUBSET {HostFilter, LxcFilter, OtherFilter, U32Filter, NamedU32Filter}]

\* The links that are audited.
AuditLinks ==
    {[Link(Eth(0), 2) EXCEPT !.tcIn = i, !.tcEg = e] :
        i \in FilterListings, e \in FilterListings}

\* Detect is in updateDevicesFromRoutes with a link to classify, or a tick is
\* in its first loop with a tracked link to audit.
ClassifyInit ==
    /\ \/ /\ \E l \in ClassifyLinks, h3 \in BOOLEAN :
                host = [HostOf({l} \cup MasterLinks, {}, {}, {}) EXCEPT !.l3Helper = h3]
          /\ \E legacy \in BOOLEAN :
                cfg = [BaseConfig EXCEPT !.EnableHostLegacyRouting = legacy]
          /\ filter \in ClassifyFilters
          /\ devices = {}
          /\ mu = "detect"
          /\ det = [IdleDetect EXCEPT !.pc = "locked"]
          /\ lpc = "init"
          /\ tickerOn = FALSE
       \/ /\ \E l \in AuditLinks : host = HostOf({l}, {}, {}, {})
          /\ cfg = BaseConfig
          /\ filter = <<EthPlus>>
          /\ devices = {Eth(0)}
          /\ mu = "listen"
          /\ det = IdleDetect
          /\ lpc = "t_check"
          /\ tickerOn = TRUE
    /\ viper = filter
    /\ loc = NoLocals
    /\ chan = <<>>
    /\ tickReady = FALSE
    /\ cancelled = FALSE
    /\ latest = <<>>
    /\ past = NoPast

\* dm.isViableDevice(l3DevOK, info.hasDefaultRoute, link) in
\* updateDevicesFromRoutes, for the link at index 2; what it was given and
\* what it returns is kept in the frame of Detect.
CallIsViableDevice ==
    /\ det.pc = "locked"
    /\ \E hasDefaultRoute \in BOOLEAN :
         LET link == LinkByIndex(host, 2)
             l3DevOK == IF ~cfg.EnableHostLegacyRouting THEN supportL3Dev(host) ELSE TRUE
         IN det' = [pc |-> "classified", err |-> "", list |-> <<>>,
                    routesListed |-> TRUE, cfg0 |-> Nil, dev0 |-> {},
                    fn |-> "isViableDevice", link |-> link, l3DevOK |-> l3DevOK,
                    hasDefaultRoute |-> hasDefaultRoute,
                    ret |-> isViableDevice(host, cfg, filter, l3DevOK,
                                           hasDefaultRoute, link)]
    /\ UNCHANGED <<devices, filter, mu, cfg, viper, host, lpc, loc, chan,
                   tickReady, tickerOn, cancelled, latest, past>>

\* dm.tcFiltersLost(link) in the first loop of checkStaticDevices, for a
\* tracked link; what it returns is kept among the task's locals.
CallTcFiltersLost ==
    /\ lpc = "t_check"
    /\ lpc' = "t_audited"
    /\ \E l \in host.links :
         /\ l.name \in devices
         /\ loc' = [links |-> {}, listed |-> TRUE, filter |-> viper,
                    changed |-> FALSE, devices |-> <<>>,
                    fn |-> "tcFiltersLost", link |-> l, ret |-> tcFiltersLost(l)]
    /\ UNCHANGED <<devices, filter, mu, cfg, viper, host, det, chan,
                   tickReady, tickerOn, cancelled, latest, past>>

ClassifyNext ==
    \/ CallIsViableDevice
    \/ CallTcFiltersLost

ClassifySpec == ClassifyInit /\ [][ClassifyNext]_vars

---------------------------------------------------------------------------
(* Detect, Listen and tick after tick on a host that stays as it is, with   *)
(* lost hooks, moved addresses and a dynamic device directory              *)

WatchHosts ==
    { \* all links in order, the recorded addresses in place
      HostOf(CallLinks, CallRoutes, RecordedAddrs, {}),
      \* hooks lost
      HostOf(DegradedLinks, CallRoutes, {}, {}),
      \* addresses moved
      HostOf(MovedLinks, CallRoutes, RecordedAddrs, {}),
      \* a dynamic device directory with the entry veth
      HostOf(CallLinks, CallRoutes, {}, {<<"v", "e", "t", "h">>}) }

WatchConfigs ==
    {[BaseConfig EXCEPT !.Devices = d] : d \in {<<>>, <<EthPlus>>, <<Eth(1), Lo>>}}

WatchInit ==
    /\ devices = {}
    /\ cfg \in WatchConfigs
    /\ filter = cfg.Devices
    /\ viper = cfg.Devices
    /\ mu = "free"
    /\ host \in WatchHosts
    /\ det = IdleDetect
    /\ lpc = "init"
    /\ loc = NoLocals
    /\ chan = <<>>
    /\ tickReady = FALSE
    /\ tickerOn = FALSE
    /\ cancelled = FALSE
    /\ latest = <<>>
    /\ past = NoPast

WatchNext ==
    \/ DetectLock
    \/ DetectRun
    \/ DetectReturn
    \/ ListenLinkList
    \/ ListenStartLock
    \/ ListenStartDiff
    \/ ListenStartUnlock
    \/ ListenSpawn
    \/ LoopSelectTick
    \/ LoopLock
    \/ LoopCheck
    \/ LoopUnlock
    \/ LoopEmit
    \/ TickFire
    \/ Receive

WatchSpec == WatchInit /\ [][WatchNext]_vars

---------------------------------------------------------------------------
(* Positions *)

\* Detect is between its Lock and its Unlock.
DetectInSection == det.pc \in {"locked", "ret"}

\* Listen, or its task, is between a Lock and the Unlock after it.
ListenInSection == lpc \in {"s_diff", "s_unlock", "t_check", "t_unlock"}

\* The task Listen started is running.
TaskRunning == lpc \in {"wait", "t_lock", "t_check", "t_unlock", "t_emit"}

\* A step puts a list on the channel.
Emission == Len(chan') > Len(chan)

---------------------------------------------------------------------------
(* C1 to C4: the task, the channel and the cancellation *)

\* C1: the task never blocks on a consumer that does not read: whenever it
\* has a changed list to send, it can send it and go back to its wait point.
C1_NeverBlockedOnConsumer == lpc = "t_emit" => ENABLED LoopEmit

\* C2: once the context is cancelled, the running task eventually stops its
\* ticker and exits, also when a changed list is pending and nobody reads.
C2_CancelledTaskExits == (cancelled /\ TaskRunning) ~> (lpc = "done" /\ ~tickerOn)

\* C3: after the context is cancelled no tick is processed and no list is
\* put on the channel.
C3_NothingAfterCancel ==
    [][cancelled => ~Emission /\ ~(lpc = "wait" /\ lpc' = "t_lock")]_vars

\* C3, amended: when the cancellation is the only ready case at the wait
\* point the task takes it, stops the ticker and exits without an emission;
\* and once the task has exited nothing is put on the channel.
C3_NothingAfterExit ==
    [][/\ (lpc = "wait" /\ cancelled /\ ~tickReady /\ lpc' # lpc)
            => (lpc' = "done" /\ ~tickerOn' /\ ~Emission)
       /\ (lpc = "done") => (lpc' = "done" /\ ~Emission)]_vars

\* The task took the cancellation branch and has exited.
C3_Witness == lpc = "done" /\ cancelled /\ ~tickerOn /\ Len(chan) > 0

\* C4: whenever the consumer receives, it receives the list produced last.
C4_ReceivesLatest == [][Len(chan') < Len(chan) => Head(chan) = latest]_vars

---------------------------------------------------------------------------
(* C5 to C10: the lock, the DeviceSet and the lists *)

\* C5: Detect and the startup diff or a tick of Listen are never inside
\* their DeviceSet sections at once, and whoever is inside holds the lock.
C5_SectionsExclusive ==
    /\ ~(DetectInSection /\ ListenInSection)
    /\ DetectInSection => mu = "detect"
    /\ ListenInSection => mu = "listen"

\* A tick waits for the lock while Detect is in its section.
C5_Witness == det.pc = "locked" /\ lpc = "t_lock" /\ devices # {}

\* C6: at the end of a reconciliation tick (one whose link listing worked)
\* no member of DeviceSet has an excluded prefix or fails the active filter.
C6_NoStaleMemberAfterTick ==
    [][(lpc = "t_check" /\ lpc' = "t_unlock" /\ loc'.listed)
          => \A n \in devices' :
                ~isExcluded(n) /\ match(host, cfg, loc'.filter, n)]_vars

\* C6, amended: the same, for a tick whose effective filter is not empty.
C6_NoStaleMemberAfterFilteringTick ==
    [][(lpc = "t_check" /\ lpc' = "t_unlock" /\ loc'.listed /\ Len(loc'.filter) > 0)
          => \A n \in devices' :
                ~isExcluded(n) /\ match(host, cfg, loc'.filter, n)]_vars

\* A tick with a filter changed the DeviceSet and left members in it.
C6_Witness ==
    /\ lpc = "t_unlock"
    /\ loc.listed
    /\ Len(loc.filter) > 0
    /\ loc.changed
    /\ devices # {}

\* C7: every list handed out is strictly ascending, and where it is taken,
\* under the lock, its members are exactly those of DeviceSet: the list
\* Detect returns and writes to the configuration, the list of the startup
\* diff and of a tick, the list pending at the send and the lists in the
\* channel.
C7_ListsSortedProjection ==
    /\ (det.pc = "ret" /\ det.err = "")
          => /\ StrictlyAscending(det.list)
             /\ Range(det.list) = devices
             /\ Len(det.list) = Cardinality(devices)
             /\ cfg.Devices = det.list
    /\ lpc \in {"s_unlock", "t_unlock"}
          => /\ StrictlyAscending(loc.devices)
             /\ Range(loc.devices) = devices
             /\ Len(loc.devices) = Cardinality(devices)
    /\ lpc \in {"s_emit", "t_emit"}
          => StrictlyAscending(loc.devices) /\ loc.devices = latest
    /\ \A i \in 1..Len(chan) : StrictlyAscending(chan[i])

\* A list of two names is in the channel.
C7_Witness == Len(chan) > 0 /\ Len(chan[1]) >= 2

\* C8: when Detect fails, DeviceSet holds nothing of the failed pass (it is
\* empty, or as it was before the call) and the configuration is as it was.
C8_NoPartialState ==
    (det.pc = "ret" /\ det.err # "")
        => (devices \in {{}, det.dev0} /\ cfg = det.cfg0)

\* C9: a startup diff or a tick that adds or removes a member reports
\* changed, and a report of changed leads to the send of the list; one that
\* reports unchanged has left DeviceSet as it was and leads to no send.
C9_ChangeReported ==
    [][/\ (lpc = "t_check" /\ lpc' = "t_unlock")
            => (loc'.changed \/ devices' = devices)
       /\ (lpc = "s_diff" /\ lpc' = "s_unlock")
            => (loc'.changed \/ devices' = devices)
       /\ (lpc = "t_unlock" /\ lpc' # lpc)
            => /\ lpc' = IF loc.changed THEN "t_emit" ELSE "wait"
               /\ loc.changed => loc'.devices = loc.devices
       /\ (lpc = "s_unlock" /\ lpc' # lpc)
            => /\ lpc' = IF loc.changed THEN "s_emit" ELSE "spawn"
               /\ loc.changed => loc'.devices = loc.devices
       /\ (lpc \in {"t_emit", "s_emit"} /\ lpc' # lpc)
            => chan' = Append(chan, loc.devices)]_vars

\* A tick removed the last member and goes to send the empty list.
C9_Witness == lpc = "t_emit" /\ loc.changed /\ loc.devices = <<>> /\ Len(chan) > 0

\* C10: a Listen that starts with a member that is not on the host goes on
\* to the startup diff, which removes it.
C10_StaleMemberRemoved ==
    [][(lpc = "init" /\ lpc' # lpc /\ devices \ LinkNames(host) # {})
          => lpc' = "s_lock"]_vars

\* C10, amended: when the link listing works, the startup diff removes
\* exactly the members that are not listed, one list is emitted into the
\* empty channel if a member was removed and none otherwise, and the list
\* holds listed links only; when the listing fails, nothing is removed and
\* nothing is emitted.
C10_StartupDiff ==
    [][/\ (lpc = "s_diff" /\ lpc' = "s_unlock")
            => /\ devices' = devices \cap loc.links
               /\ loc'.changed = (devices' # devices)
               /\ Range(loc'.devices) = devices'
       /\ (lpc = "s_unlock" /\ lpc' # lpc)
            => /\ lpc' = IF loc.changed THEN "s_emit" ELSE "spawn"
               /\ chan = <<>> /\ chan' = <<>>
       /\ (lpc = "s_emit")
            => /\ ENABLED ListenStartEmit
               /\ Range(loc.devices) \subseteq loc.links
               /\ lpc' # lpc => (chan = <<>> /\ chan' = <<loc.devices>> /\ lpc' = "spawn")
       /\ (lpc = "init" /\ lpc' = "spawn")
            => (devices' = devices /\ chan' = <<>>)]_vars

\* The startup diff removed a member and emitted the list of the rest.
C10_Witness ==
    /\ lpc = "spawn"
    /\ loc.changed
    /\ chan = <<loc.devices>>
    /\ Len(loc.devices) > 0

---------------------------------------------------------------------------
(* C11 to C16: what a tick does to the DeviceSet *)

\* A step is the check of a tick whose link listing worked.
TickListed == lpc = "t_check" /\ lpc' = "t_unlock" /\ loc'.listed

\* C11: a tick removes every tracked device that is not among the links of
\* the host, and reports changed (stated for the ticks that follow a Detect
\* that succeeded and published its list).
C11_AbsentDeviceRemoved ==
    [][(TickListed /\ Len(cfg.Devices) > 0)
          => \A n \in devices \ LinkNames(host) : n \notin devices' /\ loc'.changed]_vars

\* C11, amended: the same, for a tick whose effective filter is not empty.
C11_AbsentDeviceRemovedByFilteringTick ==
    [][(TickListed /\ Len(loc'.filter) > 0)
          => \A n \in devices \ LinkNames(host) : n \notin devices' /\ loc'.changed]_vars

\* A tick with a filter has removed a device Detect had found and that is
\* no longer on the host.
C11_Witness ==
    /\ lpc = "t_unlock"
    /\ loc.listed
    /\ Len(loc.filter) > 0
    /\ loc.changed
    /\ \E n \in Range(cfg.Devices) : n \notin LinkNames(host) /\ n \notin devices

\* C12: a tick whose effective filter is empty (no configured and no dynamic
\* pattern) reports unchanged and leaves the DeviceSet as it is, whatever
\* the links, addresses and hooks of the host are.
C12_EmptyFilterNoChange ==
    [][(lpc = "t_check" /\ lpc' = "t_unlock" /\ Len(viper) = 0
            /\ (host.dynFiles = {} \/ Len(loc'.filter) = 0))
          => (~loc'.changed /\ devices' = devices /\ loc'.devices = getDeviceList(devices))]_vars

\* A tick with an empty filter has left alone a tracked device with an
\* excluded prefix, a tracked device without its hooks, and a link that is
\* not tracked.
C12_Witness ==
    /\ lpc = "t_unlock"
    /\ loc.listed
    /\ loc.filter = <<>>
    /\ ~loc.changed
    /\ \E n \in devices : isExcluded(n)
    /\ \E l \in host.links : l.name \in devices /\ tcFiltersLost(l)
    /\ \E l \in host.links : l.name \notin devices /\ ~isExcluded(l.name)

\* Both filter listings of a link work and neither holds a BPF filter whose
\* name contains a recognized program name.
NoRecognizedFilter(l) ==
    /\ ~l.tcIn.err
    /\ ~l.tcEg.err
    /\ \A f \in l.tcIn.filters \cup l.tcEg.filters :
          ~(f.bpf /\ \E p \in RecognizedPrograms : Contains(f.name, p))

\* C13: for a tracked device that is on the host without a recognized filter
\* on either hook, the tick reports changed and keeps the device.
C13_HooksLostReported ==
    [][TickListed
          => \A l \in host.links :
                (l.name \in devices /\ NoRecognizedFilter(l))
                    => (loc'.changed /\ l.name \in devices')]_vars

\* C13, amended: the same, for a tick whose effective filter is not empty
\* and a device that has no excluded prefix and passes that filter.
C13_HooksLostReportedForKeptDevice ==
    [][(TickListed /\ Len(loc'.filter) > 0)
          => \A l \in host.links :
                (/\ l.name \in devices
                 /\ NoRecognizedFilter(l)
                 /\ ~isExcluded(l.name)
                 /\ match(host, cfg, loc'.filter, l.name))
                    => (loc'.changed /\ l.name \in devices')]_vars

\* A tick with a filter found nothing but lost hooks: it reports changed and
\* the DeviceSet is as it was, the device without hooks in it.
C13_Witness ==
    /\ lpc = "t_unlock"
    /\ loc.listed
    /\ Len(loc.filter) > 0
    /\ loc.changed
    /\ host.masq = {}
    /\ devices = {l.name : l \in {k \in host.links : kept(host, cfg, loc.filter, k.name)}}
    /\ \E l \in host.links : l.name \in devices /\ NoRecognizedFilter(l)

\* C14: a tick adds every link of the host that has no excluded prefix,
\* passes the effective filter and is not tracked, and reports changed.
C14_LostConfigRestored ==
    [][TickListed
          => \A l \in host.links :
                (/\ ~isExcluded(l.name)
                 /\ match(host, cfg, loc'.filter, l.name)
                 /\ l.name \notin devices)
                    => (l.name \in devices' /\ loc'.changed)]_vars

\* C14, amended: the same, for a tick whose effective filter is not empty.
C14_LostConfigRestoredByFilteringTick ==
    [][(TickListed /\ Len(loc'.filter) > 0)
          => \A l \in host.links :
                (/\ ~isExcluded(l.name)
                 /\ match(host, cfg, loc'.filter, l.name)
                 /\ l.name \notin devices)
                    => (l.name \in devices' /\ loc'.changed)]_vars

\* A tick with a filter has added a link that Detect had not published.
C14_Witness ==
    /\ lpc = "t_unlock"
    /\ loc.listed
    /\ Len(loc.filter) > 0
    /\ loc.changed
    /\ \E n \in devices : n \in LinkNames(host) /\ n \notin Range(cfg.Devices)

\* The node recorded an address for the device, the address listing of the
\* device works, and no IPv4 address of it that is neither secondary nor
\* deprecated is the recorded one.
AddrMismatch(n) ==
    \E m \in host.masq, l \in host.links :
       /\ m.dev = n
       /\ l.name = n
       /\ ~l.addrErr
       /\ \A a \in l.addrs :
             (a.ip.fam = "v4" /\ ~a.secondary /\ ~a.deprecated) => a.ip # m.ip

\* A tick reports changed for a mismatch of a device it still tracks, and
\* for nothing but a change of the DeviceSet, lost hooks or such a mismatch:
\* a device without a record, or whose addresses cannot be listed, adds none.
MismatchReported ==
    /\ (\E n \in devices' : AddrMismatch(n)) => loc'.changed
    /\ loc'.changed
          => \/ devices' # devices
             \/ \E l \in host.links : l.name \in devices' /\ NoRecognizedFilter(l)
             \/ \E n \in devices' : AddrMismatch(n)

\* C15: a tick reports changed when the primary IPv4 addresses of a device
\* it still tracks do not include the recorded address; a device with no
\* record or with a failing address listing contributes no change.
C15_AddressMismatchReported == [][TickListed => MismatchReported]_vars

\* C15, amended: the same for a tick whose effective filter is not empty;
\* and the members after the tick are the links that have no excluded prefix
\* and pass the filter, whatever their addresses were recorded as.
C15_AddressMismatchReportedByFilteringTick ==
    [][(TickListed /\ Len(loc'.filter) > 0)
          => /\ MismatchReported
             /\ devices' = {l.name : l \in {k \in host.links :
                               ~isExcluded(k.name)
                               /\ match(host, cfg, loc'.filter, k.name)}}]_vars

\* A tick with a filter reports changed for a device that keeps its hooks
\* and whose primary address is not the recorded one.
C15_Witness ==
    /\ lpc = "t_unlock"
    /\ loc.listed
    /\ Len(loc.filter) > 0
    /\ loc.changed
    /\ \E n \in devices : AddrMismatch(n)
    /\ \A l \in host.links : l.name \in devices => ~NoRecognizedFilter(l)

\* C16: a tick whose link listing fails is skipped: it reports unchanged and
\* leaves the DeviceSet as it is, the task unlocks and goes back to its wait
\* point without an emission and with the ticker running, and there it takes
\* the next tick.
C16_FailedListingSkipsTick ==
    [][/\ (lpc = "t_check" /\ lpc' = "t_unlock" /\ ~loc'.listed)
            => (~loc'.changed /\ devices' = devices)
       /\ (lpc = "t_unlock" /\ ~loc.listed /\ lpc' # lpc)
            => (lpc' = "wait" /\ chan' = chan /\ tickerOn' /\ mu' = "free"
                /\ devices' = devices)
       /\ (lpc = "wait" /\ tickReady) => ENABLED LoopSelectTick]_vars

\* A tick could not list the links while a tracked device is gone from the
\* host and a pattern is configured.
C16_Witness ==
    /\ lpc = "t_unlock"
    /\ ~loc.listed
    /\ Len(viper) > 0
    /\ \E n \in devices : n \notin LinkNames(host)

---------------------------------------------------------------------------
(* C17 to C20: Detect, the wildcard expansion and the filter *)

\* A step is a Detect call running from its Lock to its return.
DetectStep == det.pc = "locked" /\ det'.pc = "ret"

\* A pattern is a wildcard: it ends with the + mark.
IsWildcard(p) == Len(p) > 0 /\ p[Len(p)] = "+"

\* The configured device list is not empty and holds concrete names only.
ExplicitDevices ==
    /\ Len(cfg.Devices) > 0
    /\ \A i \in 1..Len(cfg.Devices) : ~IsWildcard(cfg.Devices[i])

\* The names of the links that carry the node IP.
NodeIPLinks ==
    {l.name : l \in {k \in host.links :
                        k.name # HostDevice /\ \E a \in k.addrs : a.ip = host.nodeIP}}

\* Detect has to find the direct-routing or the multicast device itself.
ResolvesFromNodeIP ==
    \/ cfg.DirectRoutingDeviceRequired /\ cfg.DirectRoutingDevice = <<>>
    \/ cfg.EnableIPv6NDP /\ cfg.IPv6MCastDevice = <<>>

\* The configured devices Detect adds to those it was given or found from
\* the routes: the direct-routing device when one is required, and the
\* multicast device.
ConfiguredExtras ==
    (IF cfg.DirectRoutingDeviceRequired /\ cfg.DirectRoutingDevice # <<>>
     THEN {cfg'.DirectRoutingDevice} ELSE {})
    \cup (IF cfg.IPv6MCastDevice # <<>> THEN {cfg.IPv6MCastDevice} ELSE {})

\* C17: Detect with a non-empty list of concrete names lists no routes and
\* returns exactly the names of the list.
C17_ExplicitListReturned ==
    [][(DetectStep /\ ExplicitDevices)
          => /\ ~det'.routesListed
             /\ det'.err = "" => Range(det'.list) = Range(cfg.Devices)]_vars

\* C17, amended: Detect with a non-empty list of concrete names lists no
\* routes; when it succeeds it returns, strictly ascending, the names of the
\* list and the devices it adds to them, and exactly the names of the list
\* when there is none to add.
C17_ExplicitListMerged ==
    [][(DetectStep /\ ExplicitDevices)
          => /\ ~det'.routesListed
             /\ det'.err = ""
                   => /\ StrictlyAscending(det'.list)
                      /\ Range(cfg.Devices) \cup ConfiguredExtras \subseteq Range(det'.list)
                      /\ Range(det'.list) \ (Range(cfg.Devices) \cup ConfiguredExtras)
                            \subseteq (IF ResolvesFromNodeIP THEN NodeIPLinks ELSE {})
                      /\ Range(det'.list) = devices'
                      /\ cfg'.Devices = det'.list]_vars

\* Detect was given a list of concrete names, listed no routes and returned
\* the names and one more.
C17_Witness ==
    /\ det.pc = "ret"
    /\ det.err = ""
    /\ ~det.routesListed
    /\ Len(det.cfg0.Devices) > 0
    /\ \A i \in 1..Len(det.cfg0.Devices) : ~IsWildcard(det.cfg0.Devices[i])
    /\ Range(det.list) # Range(det.cfg0.Devices)
    /\ AreDevicesRequired(det.cfg0)

\* The routes Detect lists that point at a link, are not in the kernel's
\* local table and have the default (nil) or a global unicast destination.
RoutesTo(l) ==
    {r \in RouteListFiltered(host, routeFamily(cfg)) :
        /\ r.link = l.index
        /\ r.table # "local"
        /\ (IF r.dst = Nil THEN TRUE ELSE r.dst.globalUnicast)}

\* The links with such a route that the Viability Classifier accepts, told
\* whether one of these routes is a default route.
RouteDetected ==
    {l.name : l \in {k \in host.links :
        /\ RoutesTo(k) # {}
        /\ isViableDevice(host, cfg, filter,
                          IF ~cfg.EnableHostLegacyRouting THEN supportL3Dev(host) ELSE TRUE,
                          \E r \in RoutesTo(k) : r.dst = Nil, k)}}

\* C18: Detect lists the routes only when no device is configured and a
\* feature needs the devices; the links that join the DeviceSet from the
\* routes are exactly those of RouteDetected (Detect adds to them nothing but
\* the direct-routing, the multicast and the node-IP device); and a host with
\* the single link eth0 and a default route through it yields [eth0].
C18_RouteDetection ==
    [][DetectStep
          => /\ det'.routesListed => (Len(cfg.Devices) = 0 /\ AreDevicesRequired(cfg))
             /\ (det'.routesListed /\ det'.err # "route list")
                   => /\ RouteDetected \subseteq devices'
                      /\ devices' \ RouteDetected
                            \subseteq ConfiguredExtras
                                      \cup (IF ResolvesFromNodeIP THEN NodeIPLinks ELSE {})
             /\ (det'.routesListed /\ det'.err = "" /\ LinkNames(host) = {Eth(0)}
                    /\ ConfiguredExtras = {})
                   => det'.list = <<Eth(0)>>]_vars

\* Detect listed the routes and found eth0 and veth0, which has a default
\* route, and not eth12, whose routes do not count.
C18_Witness ==
    /\ det.pc = "ret"
    /\ det.routesListed
    /\ det.err = ""
    /\ Eth(0) \in devices
    /\ Veth0 \in devices
    /\ Eth12 \in LinkNames(host)
    /\ Eth12 \notin devices

\* A wildcard pattern without its + mark: the prefix it stands for.
Strip(p) == SubSeq(p, 1, Len(p) - 1)

\* The address-family gate: the device is on the host, its addresses can be
\* listed, and it has one in every enabled family.
Gate(n) ==
    \E l \in host.links :
       /\ l.name = n
       /\ ~l.addrErr
       /\ cfg.EnableIPv4 => \E a \in l.addrs : a.ip.fam = "v4"
       /\ cfg.EnableIPv6 => \E a \in l.addrs : a.ip.fam = "v6"

\* The names a pattern list stands for: a concrete name for itself, a
\* wildcard for the live links that have its prefix and pass the gate.
Expansion(pats) ==
    UNION {IF IsWildcard(pats[i])
           THEN {n \in LinkNames(host) : HasPrefix(n, Strip(pats[i])) /\ Gate(n)}
           ELSE {pats[i]} : i \in 1..Len(pats)}

\* A step is a wildcard expansion of the configured devices whose link
\* listing worked.
ExpandStep == det.pc = "locked" /\ det'.pc = "expanded" /\ det'.linkListOk

\* C19: the expansion of a non-empty pattern list that stands for no name
\* fails; an expansion that succeeds returns a strictly ascending list that
\* holds every concrete pattern, and a live link for a wildcard only if the
\* link has the prefix and passes the gate; it is not empty unless the
\* pattern list is.
C19_WildcardExpansion ==
    [][ExpandStep
          => /\ (Len(cfg.Devices) > 0 /\ Expansion(cfg.Devices) = {}) => det'.err # ""
             /\ det'.err = ""
                   => /\ StrictlyAscending(det'.list)
                      /\ \A i \in 1..Len(cfg.Devices) :
                            ~IsWildcard(cfg.Devices[i]) => cfg.Devices[i] \in Range(det'.list)
                      /\ Range(det'.list) \subseteq Expansion(cfg.Devices)
                      /\ Len(cfg.Devices) > 0 => Len(det'.list) > 0]_vars

\* The verdict the filter owes a name: any name for the empty list; else
\* some wildcard whose prefix the name has, the gate passed, or some exact
\* pattern that is the name once trimmed of white space.
Matches(lst, n) ==
    IF Len(lst) = 0 THEN TRUE
    ELSE \E i \in 1..Len(lst) :
            IF IsWildcard(lst[i])
            THEN HasPrefix(n, Strip(lst[i])) /\ Gate(n)
            ELSE n = TrimSpace(lst[i])

\* C20: match returns that verdict.
C20_FilterMatch ==
    [][(lpc = "t_check" /\ lpc' = "t_matched")
          => loc'.ret = Matches(loc'.filter, loc'.dev)]_vars

---------------------------------------------------------------------------
(* C21 to C23: the Viability Classifier and the filter audit *)

\* A step is one call of the Viability Classifier.
ClassifyStep == det.pc = "locked" /\ det'.pc = "classified"

\* The name starts with one of the reserved prefixes.
HasReservedPrefix(name) ==
    \E p \in Range(excludedDevicePrefixes) :
       Len(p) <= Len(name) /\ \A i \in 1..Len(p) : name[i] = p[i]

\* C21: the Viability Classifier rejects every link whose name starts with a
\* reserved prefix and every link with the slave or the loopback flag,
\* whatever its type, routes, master, MAC address and filter match are.
C21_ReservedOrFlaggedRejected ==
    [][ClassifyStep
          => ((\/ HasReservedPrefix(det'.link.name)
               \/ det'.link.slave
               \/ det'.link.loopback) => ~det'.ret)]_vars

\* The classifier rejected a link for its slave flag alone: eth0, a plain
\* device with a MAC address, a default route and no master, any name allowed.
C21_Witness ==
    /\ det.pc = "classified"
    /\ ~det.ret
    /\ det.link.slave
    /\ ~det.link.loopback
    /\ det.link.name = Eth(0)
    /\ det.link.type = "device"
    /\ det.link.hasMac
    /\ det.link.master = 0
    /\ det.hasDefaultRoute
    /\ filter = <<>>

\* The link passes every rule of the classifier but the one on its type: the
\* name, the flags, the L3 gate, the filter of the manager and the master.
PassesOtherRules(l, l3DevOK) ==
    /\ ~HasReservedPrefix(l.name)
    /\ ~l.slave
    /\ ~l.loopback
    /\ l3DevOK \/ l.hasMac
    /\ match(host, cfg, filter, l.name)
    /\ ~(l.master > 0
         /\ \E m \in host.links :
               m.index = l.master /\ m.type \in {"bridge", "openvswitch", "bond", "team"})

\* C22: a veth link is accepted if and only if it has a default route.
C22_VethAcceptedIffDefaultRoute ==
    [][(ClassifyStep /\ det'.link.type = "veth")
          => det'.ret = det'.hasDefaultRoute]_vars

\* C22, amended: a veth link is accepted if and only if it has a default
\* route and passes the other rules; so a veth link without a default route
\* is rejected, and of two veth links that pass the other rules and differ
\* in the default route alone the one with it is accepted and the other is not.
C22_VethAcceptedIffDefaultRouteAndViable ==
    [][(ClassifyStep /\ det'.link.type = "veth")
          => det'.ret = (det'.hasDefaultRoute
                         /\ PassesOtherRules(det'.link, det'.l3DevOK))]_vars

\* The classifier accepted a veth link with a default route whose master is
\* a plain device.
C22_Witness ==
    /\ det.pc = "classified"
    /\ det.ret
    /\ det.link.type = "veth"
    /\ det.link.name = Veth0
    /\ det.link.master = 3
    /\ det.hasDefaultRoute

\* A step is one call of the filter audit.
AuditStep == lpc = "t_check" /\ lpc' = "t_audited"

\* The listing holds a BPF filter whose name contains a recognized name.
HasRecognizedFilter(listing) ==
    \E f \in listing.filters, p \in RecognizedPrograms : f.bpf /\ Contains(f.name, p)

\* C23: tcFiltersLost returns true only if both listings work and no listed
\* BPF filter has a recognized name; a listing error on either hook yields
\* false, and so does one recognized filter on either hook.
C23_FiltersLostOnlyIfNoneListed ==
    [][AuditStep
          => LET l == loc'.link
             IN /\ loc'.ret => (/\ ~l.tcIn.err
                                /\ ~l.tcEg.err
                                /\ ~HasRecognizedFilter(l.tcIn)
                                /\ ~HasRecognizedFilter(l.tcEg))
                /\ (l.tcIn.err \/ l.tcEg.err) => ~loc'.ret
                /\ (HasRecognizedFilter(l.tcIn) \/ HasRecognizedFilter(l.tcEg))
                      => ~loc'.ret]_vars

\* The audit said not lost for a link whose ingress listing is empty and
\* whose egress listing failed.
C23_Witness ==
    /\ lpc = "t_audited"
    /\ ~loc.ret
    /\ ~loc.link.tcIn.err
    /\ loc.link.tcIn.filters = {}
    /\ loc.link.tcEg.err

---------------------------------------------------------------------------
(* C24 to C28: Detect and the ticks over time *)

\* Detect has to find the direct-routing device itself: one is required and
\* none is configured.
ResolvesDirectRouting ==
    cfg.DirectRoutingDeviceRequired /\ cfg.DirectRoutingDevice = <<>>

\* The failures of Detect before it comes to the direct-routing device.
EarlyErrors == {"expand devices", "expand direct routing device", "route list"}

\* The failure of the multicast resolution, which comes after.
LateErrors == {"multicast device undetermined"}

\* C24: when the direct-routing device is required and not configured, the
\* node-IP link, if found, is added to the DeviceSet; with Kubernetes on and
\* no node-IP link found Detect fails; otherwise the direct-routing device
\* becomes the sole member of the DeviceSet when there is exactly one, else
\* the node-IP link, else Detect fails as undeterminable. A Detect that
\* succeeds has the chosen device in the list it returns. (n is the node-IP
\* link found, "" for none: the lookup finds only a link that carries the
\* node IP, and can fail to find it.)
C24_DirectRoutingResolution ==
    [][(DetectStep /\ ResolvesDirectRouting /\ det'.err \notin EarlyErrors)
          => /\ \E n \in NodeIPLinks \cup {<<>>} :
                  /\ n # <<>> => n \in devices'
                  /\ IF n = <<>> /\ cfg.K8sEnabled
                     THEN det'.err = "node IP not found"
                     ELSE IF Cardinality(devices') = 1
                     THEN /\ devices' = {cfg'.DirectRoutingDevice}
                          /\ det'.err \in {""} \cup LateErrors
                     ELSE IF n # <<>>
                     THEN /\ cfg'.DirectRoutingDevice = n
                          /\ det'.err \in {""} \cup LateErrors
                     ELSE det'.err = "direct routing device undetermined"
             /\ det'.err = ""
                   => /\ cfg'.DirectRoutingDevice # <<>>
                      /\ cfg'.DirectRoutingDevice \in Range(det'.list)]_vars

\* Detect found several devices and took the node-IP link as the
\* direct-routing device.
C24_Witness ==
    /\ det.pc = "ret"
    /\ det.err = ""
    /\ det.cfg0.DirectRoutingDeviceRequired
    /\ det.cfg0.DirectRoutingDevice = <<>>
    /\ Cardinality(devices) > 1
    /\ cfg.DirectRoutingDevice \in NodeIPLinks
    /\ cfg.DirectRoutingDevice \in Range(det.list)

\* The names of the links of the host that have no reserved prefix and that
\* the filter matches.
FilteredLinks(flt) ==
    {l.name : l \in {k \in host.links :
                        ~HasReservedPrefix(k.name) /\ match(host, cfg, flt, k.name)}}

\* C25: after a tick whose link listing works and whose effective filter is
\* not empty, the DeviceSet is exactly the set of the names of the links of
\* the host that have no excluded prefix and pass the filter: every other
\* member is removed, however it came in, and every such link is a member,
\* whatever the Viability Classifier says of it; the tick reports changed
\* when the set is not what it was.
C25_TickLeavesFilteredLinks ==
    [][(TickListed /\ Len(loc'.filter) > 0)
          => /\ devices' = FilteredLinks(loc'.filter)
             /\ \A n \in devices \ FilteredLinks(loc'.filter) : n \notin devices'
             /\ devices' # devices => loc'.changed
             /\ Range(loc'.devices) = devices']_vars

\* A tick with a filter has changed the DeviceSet and left in it veth0, a
\* veth link without a default route, which the classifier rejects, while
\* the link eth12 of the host is no member.
C25_Witness ==
    /\ lpc = "t_unlock"
    /\ loc.listed
    /\ Len(loc.filter) > 0
    /\ loc.changed
    /\ Veth0 \in devices
    /\ \E l \in host.links :
          /\ l.name = Veth0
          /\ l.type = "veth"
          /\ ~\E r \in host.routes : r.link = l.index /\ r.dst = Nil
          /\ ~isViableDevice(host, cfg, loc.filter, TRUE, FALSE, l)
    /\ Eth12 \in LinkNames(host)
    /\ Eth12 \notin devices

\* A step is the check of a tick that follows a tick on the same host with
\* the same effective filter, the link listing of both worked.
SecondTick == TickListed /\ past.tick # Nil /\ loc'.filter = past.tick.filter

\* Every tracked device has a recognized filter, and every recorded address
\* is a primary IPv4 address of its device.
Healthy ==
    /\ \A n \in devices :
          \E l \in host.links :
             l.name = n /\ (HasRecognizedFilter(l.tcIn) \/ HasRecognizedFilter(l.tcEg))
    /\ \A m \in host.masq :
          \E l \in host.links :
             /\ l.name = m.dev
             /\ \E a \in l.addrs :
                   a.ip.fam = "v4" /\ ~a.secondary /\ ~a.deprecated /\ a.ip = m.ip

\* A tracked device is on the host without a recognized filter, or with
\* primary addresses that do not include the recorded one.
Persisting ==
    \E l \in host.links :
       l.name \in devices /\ (NoRecognizedFilter(l) \/ AddrMismatch(l.name))

\* A tick that reports unchanged emits nothing, one that reports changed
\* goes to emit its list.
EmitsIfChanged ==
    (lpc = "t_unlock" /\ lpc' # lpc)
        => /\ lpc' = IF loc.changed THEN "t_emit" ELSE "wait"
           /\ chan' = chan
           /\ loc.changed => loc'.devices = loc.devices

\* C26: when the host and the effective filter are the same as at the tick
\* before, every tracked device has a recognized filter and every recorded
\* address is in place, the tick reports unchanged and emits nothing; and
\* with a persisting loss of hooks or mismatch of an address the tick
\* reports changed, emits again and leaves the DeviceSet as it is.
C26_Quiescence ==
    [][/\ (SecondTick /\ Healthy) => ~loc'.changed
       /\ (SecondTick /\ Persisting) => (loc'.changed /\ devices' = devices)
       /\ EmitsIfChanged]_vars

\* C26, amended: the same when no Detect call has run since the tick before,
\* and, for the persisting loss or mismatch, when the effective filter is
\* not empty.
C26_QuiescenceWithoutDetect ==
    [][/\ (SecondTick /\ ~past.tick.detected /\ Healthy) => ~loc'.changed
       /\ (SecondTick /\ ~past.tick.detected /\ Len(loc'.filter) > 0 /\ Persisting)
             => (loc'.changed /\ devices' = devices)
       /\ EmitsIfChanged]_vars

\* A tick with a filter reports unchanged on a healthy host while the list
\* an earlier tick emitted, the one of the DeviceSet as it is, is still in
\* the channel.
C26_Witness ==
    /\ lpc = "t_unlock"
    /\ loc.listed
    /\ Len(loc.filter) > 0
    /\ ~loc.changed
    /\ ~past.tick.detected
    /\ Healthy
    /\ chan = <<loc.devices>>
    /\ Len(loc.devices) > 0

\* Listen, or its task, is at a send on the output channel.
AtSend == lpc \in {"s_emit", "t_emit"}

\* C27: the lock is not held by Listen or its task while a list is being
\* sent, so that with the task at a send, the channel full or not, a Detect
\* call can take the lock, run and return; and the send of the startup diff
\* finds the channel empty and does not block.
C27_LockFreeWhileSending ==
    /\ AtSend => mu # "listen"
    /\ (AtSend /\ det.pc = "idle") => (mu = "free" /\ ENABLED DetectLock)
    /\ (AtSend /\ det.pc = "locked") => ENABLED DetectRun
    /\ (AtSend /\ det.pc = "ret") => ENABLED DetectReturn
    /\ lpc = "s_emit" => (chan = <<>> /\ ENABLED ListenStartEmit)
    /\ lpc = "spawn" => ENABLED ListenSpawn

\* The task is at its send with the channel full, and a Detect call has
\* taken the lock and run meanwhile.
C27_Witness ==
    /\ lpc = "t_emit"
    /\ Len(chan) = ChanCap
    /\ ~ENABLED LoopEmit
    /\ det.pc = "ret"
    /\ det.err = ""
    /\ mu = "detect"

\* A step is a Detect call that follows a Detect that returned a list with
\* a member in it.
SecondDetect == DetectStep /\ past.detect # Nil

\* C28: a Detect call that follows a Detect that succeeded with a non-empty
\* list goes by the configured list, which is the list written back: it
\* lists no routes, and when it succeeds it returns the same list again and
\* leaves it as the DeviceSet and as the configured list, whatever the links
\* and routes of the host have become; it fails only where a link listing of
\* the pattern expansion fails.
C28_DetectIdempotent ==
    [][SecondDetect
          => /\ ~det'.routesListed
             /\ cfg.Devices = past.detect.list
             /\ det'.err \in {"", "expand devices", "expand direct routing device"}
             /\ det'.err = ""
                   => /\ det'.list = past.detect.list
                      /\ devices' = Range(past.detect.list)
                      /\ cfg' = cfg]_vars

\* Detect returned the list it had returned before, with a member that is
\* not a link of the host any more, where it had found its devices from
\* the routes the first time.
C28_Witness ==
    /\ det.pc = "ret"
    /\ det.err = ""
    /\ past.detect # Nil
    /\ det.list = past.detect.list
    /\ ~det.routesListed
    /\ viper = <<>>
    /\ \E n \in Range(det.list) : n \notin LinkNames(host)

====
